---- MODULE Spec2Model ----
EXTENDS Integers, Sequences, FiniteSets, TLC

(***************************************************************************)
(* The FDC3 desktop-agent broker (src/src/background.js): the registry of  *)
(* connected ports, the channel / context state, the intent-listener       *)
(* registry, and the asynchronous continuations (manifest fetch, tab       *)
(* title) that the message handlers start.  One action per handler; a      *)
(* handler that throws keeps the assignments it made before the throw.     *)
(***************************************************************************)

\* ------------------------------------------------------------ bounds
MaxPorts == 2
NumTabs == 2
MaxHistory == 2
MaxListeners == 2
MaxIntentListeners == 2
MaxPendingTitles == 1
MaxPendingIntents == 1
MaxPendingResolves == 2
MaxClientEvents == 2

Ports == 1 .. MaxPorts
Tabs == 1 .. NumTabs

\* ------------------------------------------------------------ values
\* JavaScript's undefined, for string-valued fields
UNDEF == "undefined"
\* null / undefined, for port-valued and entry-valued fields
NULL == 0

\* v ? v : other  -- undefined and the empty string are falsy
Truthy(v) == v # UNDEF /\ v # ""

\* the system channels imported from ./system-channels (each has an id and
\* a visualIdentity.color)
channels == {"red"}

\* the channel ids a joinChannel message may carry: a system channel,
\* "default", an id no system channel has, and the empty string
ChannelIds == channels \cup {"default", "x", ""}

\* those of them that are not the empty string
NamedChannelIds == ChannelIds \ {""}

\* context payloads (opaque to the channel code)
Contexts == {"c1", "c2"}

\* intent names
Intents == {"ViewChart"}

\* the intent names a raiseIntent / resolveIntent message may carry: one
\* that two directory entries declare, one that a single entry declares and
\* one that no entry declares
RaisedIntents == Intents \cup {"ViewNews", "Chat"}

\* the intent names an addIntentListener message may carry beside them
ListenedIntents == Intents \cup {"Chat"}

\* the contexts a raiseIntent / resolveIntent message may carry
\* (msg.data.context): a type and the fields a manifest's params read
RaiseContexts ==
    { [type |-> "security", ticker |-> "MSFT"],
      [type |-> "contact", ticker |-> UNDEF] }

\* the manifests behind the directory's manifest urls (mR.json()): the
\* start_url, the intent entries, the params and the templates; a template
\* is the sequence of its pieces, a placeholder being one piece
Manifests ==
    [m \in {"mA", "mC"} |->
       IF m = "mA"
       THEN [start_url |-> "https://a/start",
             intents |-> << [type |-> UNDEF, intent |-> "ViewChart",
                             template |-> "chart"] >>,
             params |-> [k \in {"symbol"} |->
                            [type |-> "security", key |-> "ticker"]],
             templates |-> [n \in {"chart"} |->
                              << "app://open?sym=", "${symbol}" >>]]
       ELSE [start_url |-> "https://c/start",
             intents |-> << [type |-> "security", intent |-> "ViewChart",
                             template |-> "chart"],
                            [type |-> "security", intent |-> "ViewNews",
                             template |-> "news"] >>,
             params |-> [k \in {"symbol"} |->
                            [type |-> "security", key |-> "ticker"]],
             templates |-> [n \in {"chart", "news"} |->
                              IF n = "chart"
                              THEN << "c://chart?sym=", "${symbol}",
                                      "&by=", "${user}" >>
                              ELSE << "c://news?sym=", "${symbol}",
                                      "&also=", "${symbol}" >>]]]

\* the tab ids a getTabTitle message may carry
TitleTabs == {1}

\* directory.json as fetched: entries with name, start_url, manifest, intents
DirectoryData ==
    << [name |-> "appA", start_url |-> [origin |-> "oA", path |-> "/a"],
        has_start_url |-> TRUE, manifest |-> "mA", intents |-> {"ViewChart"}],
       [name |-> "appB", start_url |-> [origin |-> "oB", path |-> "/b"],
        has_start_url |-> TRUE, manifest |-> UNDEF, intents |-> {}],
       [name |-> "appC", start_url |-> [origin |-> "oC", path |-> "/c"],
        has_start_url |-> FALSE, manifest |-> "mC",
        intents |-> {"ViewChart", "ViewNews"}] >>

\* the urls a connecting page may have (port.sender.url)
AppUrls == { [origin |-> "oA", path |-> "/page"],
             [origin |-> "oB", path |-> "/b"],
             [origin |-> "oC", path |-> "/c"],
             [origin |-> "oN", path |-> "/"] }

\* new URL(u).origin
Origin(u) == u.origin

\* the pages intent handlers tell apart: one whose entry has a manifest to
\* fetch, one whose entry has none, one that no entry matches
IntentUrls == { u \in AppUrls : Origin(u) \in {"oA", "oB", "oN"} }

\* the pages whose origin no directory entry's start_url has
PlainUrls ==
    { u \in AppUrls :
        \A i \in DOMAIN DirectoryData :
           ~ (DirectoryData[i].has_start_url
              /\ Origin(u) = Origin(DirectoryData[i].start_url)) }

VARIABLES
    directory,        \* let directory = null; then the fetched data
    manifestContent,  \* entry.manifestContent, per directory entry
    ports,            \* the port objects: status, sender.tab.id, channel, directoryData
    connected,        \* let connected = {}
    contexts,         \* let contexts = {default:[]}
    tabChannels,      \* let tabChannels = {}
    contextListeners, \* let contextListeners = {default:[]}
    intentListeners,  \* let intentListeners = {}
    tasks,            \* pending asynchronous continuations (fetch().then, sendMessage callback)
    last,             \* the handler that ran last and what it posted
    client            \* the content script of one tab (content.ts)

vars == << directory, manifestContent, ports, connected, contexts, tabChannels,
           contextListeners, intentListeners, tasks, last, client >>

\* ------------------------------------------------------------ helpers
Range(s) == { s[i] : i \in DOMAIN s }

RECURSIVE SumLen(_, _)
SumLen(f, keys) ==
    IF keys = {} THEN 0
    ELSE LET k == CHOOSE x \in keys : TRUE
         IN Len(f[k]) + SumLen(f, keys \ {k})

\* number of registrations held in a listener dictionary
TotalLen(f) == SumLen(f, DOMAIN f)

\* let app_id = (port.sender.id + port.sender.tab.id): every port has the
\* extension's sender id, so the id is decided by the tab
app_id(p) == ports[p].tab

\* directory.find(ent => ent.start_url && origin(app_url) === origin(ent.start_url))
FindEntry(url) ==
    LET hits == { i \in DOMAIN directory.entries :
                    /\ directory.entries[i].has_start_url
                    /\ Origin(url) = Origin(directory.entries[i].start_url) }
    IN IF hits = {} THEN NULL
       ELSE CHOOSE i \in hits : \A j \in hits : i <= j

\* connected[id].channel ? connected[id].channel : "default"
ChannelOf(id) ==
    IF Truthy(ports[connected[id]].channel) THEN ports[connected[id]].channel
    ELSE "default"

Post(to, name, data) == [to |-> to, name |-> name, data |-> data]

\* what the handler that ran last did: the handler, the port it ran for,
\* the postMessage calls it made in order, whether it ended in a throw
\* (postMessage on a disconnected port throws), and the calls it made to
\* the collaborators (the resolver UI, window.open) in order
RanCalls(op, p, posts, threw, calls) ==
    [op |-> op, port |-> p, posts |-> posts, threw |-> threw, calls |-> calls]

\* a handler that calls no collaborator (window.open, chrome.tabs.sendMessage)
Ran(op, p, posts, threw) == RanCalls(op, p, posts, threw, << >>)

\* ------------------------------------------------------------ templates
\* "${" + key + "}"
Placeholder(key) == "${" \o key \o "}"

\* template.replace(pattern, value) with a string pattern: the first
\* occurrence of the pattern is replaced, the others stay
RECURSIVE ReplaceFirst(_, _, _)
ReplaceFirst(template, pattern, value) ==
    IF template = << >> THEN << >>
    ELSE IF Head(template) = pattern THEN << value >> \o Tail(template)
    ELSE << Head(template) >> \o ReplaceFirst(Tail(template), pattern, value)

\* Object.keys(mD.params).forEach(...): params[key] = ctx[param.key] for the
\* params whose type is the context's type
ExtractParams(mD, ctx) ==
    LET keys == { k \in DOMAIN mD.params :
                    /\ ctx.type = mD.params[k].type
                    /\ Truthy(mD.params[k].key) }
    IN [k \in keys |-> ctx[mD.params[k].key]]

\* Object.keys(params).forEach(key => template = template.replace(...))
RECURSIVE ReplaceAllKeys(_, _, _)
ReplaceAllKeys(template, params, keys) ==
    IF keys = {} THEN template
    ELSE LET k == CHOOSE x \in keys : TRUE
         IN ReplaceAllKeys(ReplaceFirst(template, Placeholder(k), params[k]),
                           params, keys \ {k})

\* raiseIntent: mD.intents.find(i => i.type === ctx.type && i.intent ===
\* intent); NULL when nothing is found
FindRaisedIntentData(mD, intent, ctx) ==
    LET hits == { i \in DOMAIN mD.intents :
                    /\ mD.intents[i].type = ctx.type
                    /\ mD.intents[i].intent = intent }
    IN IF hits = {} THEN NULL
       ELSE CHOOSE i \in hits : \A j \in hits : i <= j

\* resolveIntent: mD.intents.find(i => i.type ? i.type === ctx.type &&
\* i.intent === intent : i.intent === intent); NULL when nothing is found
FindIntentData(mD, intent, ctx) ==
    LET hits == { i \in DOMAIN mD.intents :
                    /\ mD.intents[i].intent = intent
                    /\ Truthy(mD.intents[i].type) =>
                          mD.intents[i].type = ctx.type }
    IN IF hits = {} THEN NULL
       ELSE CHOOSE i \in hits : \A j \in hits : i <= j

\* the continuation of resolveIntent's manifest fetch: the url it opens, or
\* a throw at mD.templates[intentData.template] when no intent entry
\* was found
LaunchUrl(mD, intent, ctx) ==
    LET intentData == FindIntentData(mD, intent, ctx)
        params == ExtractParams(mD, ctx)
    IN IF intentData = NULL
       THEN [threw |-> TRUE, url |-> << >>]
       ELSE [threw |-> FALSE,
             url |-> ReplaceAllKeys(mD.templates[mD.intents[intentData].template],
                                    params, DOMAIN params)]

\* ------------------------------------------------------------ initial state
Init ==
    /\ directory = [loaded |-> FALSE, entries |-> << >>]
    /\ manifestContent = [i \in DOMAIN DirectoryData |-> UNDEF]
    /\ ports = [p \in Ports |->
                  [status |-> "idle", tab |-> NULL, channel |-> UNDEF,
                   directoryData |-> NULL]]
    /\ connected = [t \in Tabs |-> NULL]
    /\ contexts = [c \in channels \cup {"default"} |-> << >>]
    /\ tabChannels = [t \in Tabs |-> UNDEF]
    /\ contextListeners = [c \in channels \cup {"default"} |-> << >>]
    /\ intentListeners = [k \in {} |-> << >>]
    /\ tasks = {}
    /\ last = Ran("init", NULL, << >>, FALSE)
    /\ client = [connected |-> FALSE, eventQ |-> << >>, sent |-> << >>,
                 inbox |-> << >>]

\* ------------------------------------------------------------ directory fetch
\* fetch(".../directory.json").then(... directory = data)
DirectoryLoaded ==
    /\ ~directory.loaded
    /\ directory' = [loaded |-> TRUE, entries |-> DirectoryData]
    /\ last' = Ran("directoryLoaded", NULL, << >>, FALSE)
    /\ UNCHANGED << manifestContent, ports, connected, contexts, tabChannels,
                    contextListeners, intentListeners, tasks >>

\* ------------------------------------------------------------ connect
\* chrome.runtime.onConnect listener; ports are numbered in the order in
\* which they connect, tabs in the order in which a page first connects
\* from them.  While directory is still null,
\* directory.find throws before the port is stored or any listener is
\* attached: the port stays unknown to the broker ("unwired").
Connect(p, tab, url) ==
    /\ ports[p].status = "idle"
    /\ \A q \in Ports : q < p => ports[q].status # "idle"
    /\ \A t \in Tabs : t < tab => \E q \in Ports : ports[q].tab = t
    /\ IF ~directory.loaded
       THEN /\ ports' = [ports EXCEPT ![p].status = "unwired", ![p].tab = tab]
            /\ last' = Ran("connect", p, << >>, TRUE)
            /\ UNCHANGED << connected, tasks >>
       ELSE LET entry == FindEntry(url)
                data == [currentChannel |-> tabChannels[tab], tabId |-> tab,
                         directory |-> NULL]
            IN /\ connected' = [connected EXCEPT ![tab] = p]
               /\ IF entry # NULL /\ Truthy(directory.entries[entry].manifest)
                  THEN \* fetch(entry.manifest).then(...): posted later
                       /\ tasks' = tasks \cup
                             {[kind |-> "connect", port |-> p, entry |-> entry,
                               data |-> data]}
                       /\ ports' = [ports EXCEPT ![p].status = "open", ![p].tab = tab]
                       /\ last' = Ran("connect", p, << >>, FALSE)
                  ELSE IF entry # NULL
                  THEN /\ ports' = [ports EXCEPT ![p].status = "open", ![p].tab = tab,
                                                 ![p].directoryData = entry]
                       /\ last' = Ran("connect", p,
                                      << Post(p, "environmentData",
                                              [data EXCEPT !.directory = entry]) >>,
                                      FALSE)
                       /\ UNCHANGED tasks
                  ELSE \* no entry: nothing is posted
                       /\ ports' = [ports EXCEPT ![p].status = "open", ![p].tab = tab]
                       /\ last' = Ran("connect", p, << >>, FALSE)
                       /\ UNCHANGED tasks
    /\ UNCHANGED << directory, manifestContent, contexts, tabChannels,
                    contextListeners, intentListeners >>

\* fetch(entry.manifest).then(mR => mR.json().then(mD => {...})) of onConnect:
\* runs whether or not the port is still connected
ConnectFetchDone(t) ==
    /\ t \in tasks /\ t.kind = "connect"
    /\ tasks' = tasks \ {t}
    /\ manifestContent' = [manifestContent EXCEPT ![t.entry] =
                              directory.entries[t.entry].manifest]
    /\ ports' = [ports EXCEPT ![t.port].directoryData = t.entry]
    /\ last' = Ran("connectFetchDone", t.port,
                   << Post(t.port, "environmentData",
                           [t.data EXCEPT !.directory = t.entry]) >>,
                   ports[t.port].status = "closed")
    /\ UNCHANGED << directory, connected, contexts, tabChannels,
                    contextListeners, intentListeners >>

\* the fetch is rejected or the body is not JSON: no continuation runs
ConnectFetchFailed(t) ==
    /\ t \in tasks /\ t.kind = "connect"
    /\ tasks' = tasks \ {t}
    /\ last' = Ran("connectFetchFailed", t.port, << >>, FALSE)
    /\ UNCHANGED << directory, manifestContent, ports, connected, contexts,
                    tabChannels, contextListeners, intentListeners >>

\* ------------------------------------------------------------ disconnect
\* Disconnect with the intent-listener cleanup left out
Disconnect_KeepsIntentListeners(p) ==
    /\ ports[p].status = "open"
    /\ LET id == app_id(p)
           notId(item) == item # id
       IN /\ connected' = [connected EXCEPT ![id] = NULL]
          /\ contextListeners' =
                [c \in DOMAIN contextListeners |->
                    SelectSeq(contextListeners[c], notId)]
    /\ ports' = [ports EXCEPT ![p].status = "closed"]
    /\ last' = Ran("disconnect", p, << >>, FALSE)
    /\ UNCHANGED << directory, manifestContent, contexts, tabChannels, tasks,
                    intentListeners >>

\* Disconnect that also forgets the tab's channel
Disconnect_ClearsTabChannel(p) ==
    /\ ports[p].status = "open"
    /\ LET id == app_id(p)
           notId(item) == item # id
           otherTab(item) == ports[item].tab # ports[p].tab
       IN /\ connected' = [connected EXCEPT ![id] = NULL]
          /\ contextListeners' =
                [c \in DOMAIN contextListeners |->
                    SelectSeq(contextListeners[c], notId)]
          /\ intentListeners' =
                [k \in DOMAIN intentListeners |->
                    SelectSeq(intentListeners[k], otherTab)]
    /\ tabChannels' = [tabChannels EXCEPT ![ports[p].tab] = UNDEF]
    /\ ports' = [ports EXCEPT ![p].status = "closed"]
    /\ last' = Ran("disconnect", p, << >>, FALSE)
    /\ UNCHANGED << directory, manifestContent, contexts, tasks >>

\* port.onDisconnect listener
Disconnect(p) ==
    /\ ports[p].status = "open"
    /\ LET id == app_id(p)
           notId(item) == item # id
           otherTab(item) == ports[item].tab # ports[p].tab
       IN /\ connected' = [connected EXCEPT ![id] = NULL]
          /\ contextListeners' =
                [c \in DOMAIN contextListeners |->
                    SelectSeq(contextListeners[c], notId)]
          /\ intentListeners' =
                [k \in DOMAIN intentListeners |->
                    SelectSeq(intentListeners[k], otherTab)]
    /\ ports' = [ports EXCEPT ![p].status = "closed"]
    /\ last' = Ran("disconnect", p, << >>, FALSE)
    /\ UNCHANGED << directory, manifestContent, contexts, tabChannels, tasks >>

\* ------------------------------------------------------------ messages
\* contextListeners[channel].push(id), with the key created when absent
Push(f, key, item) ==
    [k \in DOMAIN f \cup {key} |->
        IF k = key
        THEN (IF key \in DOMAIN f THEN f[key] ELSE << >>) \o << item >>
        ELSE f[k]]

\* msg.method === "addContextListener"
AddContextListener(p) ==
    /\ ports[p].status = "open"
    /\ LET id == app_id(p)
       IN IF connected[id] = NULL
          THEN \* connected[id].channel: TypeError
               /\ last' = Ran("addContextListener", p, << >>, TRUE)
               /\ UNCHANGED contextListeners
          ELSE /\ contextListeners' = Push(contextListeners, ChannelOf(id), id)
               /\ TotalLen(contextListeners') <= MaxListeners
               /\ last' = Ran("addContextListener", p, << >>, FALSE)
    /\ UNCHANGED << directory, manifestContent, ports, connected, contexts,
                    tabChannels, intentListeners, tasks >>

\* msg.method === "addIntentListener"
AddIntentListener(p, name) ==
    /\ ports[p].status = "open"
    /\ intentListeners' = Push(intentListeners, name, p)
    /\ TotalLen(intentListeners') <= MaxIntentListeners
    /\ last' = Ran("addIntentListener", p, << >>, FALSE)
    /\ UNCHANGED << directory, manifestContent, ports, connected, contexts,
                    tabChannels, contextListeners, tasks >>

\* contextListeners[channel].forEach(l => connected[l].postMessage(...)):
\* the posts made, in order, up to a listener whose registry entry is null
RECURSIVE Deliver(_, _)
Deliver(ls, data) ==
    IF ls = << >> \/ connected[Head(ls)] = NULL THEN << >>
    ELSE << Post(connected[Head(ls)], "context", data) >> \o Deliver(Tail(ls), data)

\* whether that forEach ends in a TypeError (a listener with a null entry)
DeliverThrows(ls) == \E i \in DOMAIN ls : connected[ls[i]] = NULL

\* msg.method === "broadcast"
Broadcast(p, ctx) ==
    /\ ports[p].status = "open"
    /\ LET id == app_id(p)
       IN IF connected[id] = NULL \/ ChannelOf(id) \notin DOMAIN contexts
          THEN \* connected[id].channel or contexts[channel].unshift: TypeError
               /\ last' = Ran("broadcast", p, << >>, TRUE)
               /\ UNCHANGED contexts
          ELSE LET channel == ChannelOf(id)
               IN /\ TotalLen(contexts) < MaxHistory
                  /\ contexts' = [contexts EXCEPT ![channel] = << ctx >> \o @]
                  /\ last' = Ran("broadcast", p,
                                 Deliver(contextListeners[channel], [context |-> ctx]),
                                 DeliverThrows(contextListeners[channel]))
    /\ UNCHANGED << directory, manifestContent, ports, connected, tabChannels,
                    contextListeners, intentListeners, tasks >>

\* msg.method === "joinChannel"; msg.data.restoreOnly is not read
JoinChannel(p, chan, restoreOnly) ==
    /\ ports[p].status = "open"
    /\ LET _id == app_id(p)
       IN IF connected[_id] = NULL
          THEN \* connected[_id].channel: TypeError
               /\ last' = Ran("joinChannel", p, << >>, TRUE)
               /\ UNCHANGED << ports, contextListeners, tabChannels >>
          ELSE LET prevChan == ChannelOf(_id)
                   notId(id) == id # _id
                   removed == [contextListeners EXCEPT ![prevChan] =
                                  SelectSeq(@, notId)]
               IN /\ contextListeners' = Push(removed, chan, _id)
                  /\ TotalLen(contextListeners') <= MaxListeners
                  /\ ports' = [ports EXCEPT ![connected[_id]].channel = chan]
                  /\ tabChannels' = [tabChannels EXCEPT ![ports[p].tab] = chan]
                  /\ IF chan \notin channels
                     THEN \* selectedChannel is undefined: TypeError before the post
                          last' = Ran("joinChannel", p, << >>, TRUE)
                     ELSE last' = Ran("joinChannel", p,
                                      << Post(p, "context",
                                              [context |->
                                                 IF contexts[chan] = << >> THEN UNDEF
                                                 ELSE contexts[chan][1]]) >>,
                                      FALSE)
    /\ UNCHANGED << directory, manifestContent, connected, contexts,
                    intentListeners, tasks >>

\* msg.method === "getTabTitle": chrome.tabs.sendMessage(id, ..., callback)
GetTabTitle(p, tabId) ==
    /\ ports[p].status = "open"
    /\ Cardinality({ t \in tasks : t.kind = "tabTitle" }) < MaxPendingTitles
    /\ tasks' = tasks \cup {[kind |-> "tabTitle", port |-> p, tabId |-> tabId]}
    /\ last' = Ran("getTabTitle", p, << >>, FALSE)
    /\ UNCHANGED << directory, manifestContent, ports, connected, contexts,
                    tabChannels, contextListeners, intentListeners >>

\* the sendMessage callback function(r){ port.postMessage({name:"tabTitle", ...}) }:
\* runs whether or not the port is still connected
TabTitleReply(t, r) ==
    /\ t \in tasks /\ t.kind = "tabTitle"
    /\ tasks' = tasks \ {t}
    /\ last' = Ran("tabTitleReply", t.port,
                   << Post(t.port, "tabTitle", [tabId |-> t.tabId, title |-> r]) >>,
                   ports[t.port].status = "closed")
    /\ UNCHANGED << directory, manifestContent, ports, connected, contexts,
                    tabChannels, contextListeners, intentListeners >>

\* ------------------------------------------------------------ intents
\* the continuations an intent message may leave pending
IntentTaskKinds == {"raiseFetch", "resolver", "resolveFetch"}

PendingIntentTasks == Cardinality({ t \in tasks : t.kind \in IntentTaskKinds })

\* tasks is a set: a continuation equal in every field to one that is
\* still pending is not started a second time
NotPending(t) == t \notin tasks

\* intentListeners[intent], << >> when the key is absent
ListenersFor(intent) ==
    IF intent \in DOMAIN intentListeners THEN intentListeners[intent] ELSE << >>

\* list.find(app => app.directoryData.name === entry.name) reads
\* app.directoryData of each port up to the first match: it throws on a port
\* that has no directoryData (no entry matched its origin, or the manifest
\* fetch of its connect is still pending)
FindThrows(list, i) ==
    \E k \in DOMAIN list :
       /\ ports[list[k]].directoryData = NULL
       /\ \A j \in 1 .. (k - 1) :
             directory.entries[ports[list[j]].directoryData].name
                # directory.entries[i].name

\* the find above returns a port: the entry is already dynamically registered
Registered(list, i) ==
    \E k \in DOMAIN list :
       /\ ports[list[k]].directoryData # NULL
       /\ directory.entries[ports[list[k]].directoryData].name
             = directory.entries[i].name

\* the candidates with the directory pass not testing entry.intents
Candidates_AnyEntry(intent) ==
    LET list == ListenersFor(intent)
        wins == [k \in DOMAIN list |-> [type |-> "window", details |-> list[k]]]
        idx  == [i \in DOMAIN directory.entries |-> i]
        keep(i) == ~ Registered(list, i)
        dirs == SelectSeq(idx, keep)
    IN wins \o [k \in DOMAIN dirs |-> [type |-> "directory", details |-> dirs[k]]]

\* the candidates with the "already dynamically registered" test left out
Candidates_NoDedup(intent) ==
    LET list == ListenersFor(intent)
        wins == [k \in DOMAIN list |-> [type |-> "window", details |-> list[k]]]
        idx  == [i \in DOMAIN directory.entries |-> i]
        keep(i) == intent \in directory.entries[i].intents
        dirs == SelectSeq(idx, keep)
    IN wins \o [k \in DOMAIN dirs |-> [type |-> "directory", details |-> dirs[k]]]

\* the candidates with the directory pass run before the listener pass
Candidates_DirectoryFirst(intent) ==
    LET list == ListenersFor(intent)
        wins == [k \in DOMAIN list |-> [type |-> "window", details |-> list[k]]]
        idx  == [i \in DOMAIN directory.entries |-> i]
        keep(i) == /\ intent \in directory.entries[i].intents
                   /\ ~ Registered(list, i)
        dirs == SelectSeq(idx, keep)
    IN [k \in DOMAIN dirs |-> [type |-> "directory", details |-> dirs[k]]] \o wins

\* the candidates r of raiseIntent: the live listeners in registration
\* order, then the directory entries that declare the intent and are not
\* dynamically registered, in directory order
Candidates(intent) ==
    LET list == ListenersFor(intent)
        wins == [k \in DOMAIN list |-> [type |-> "window", details |-> list[k]]]
        idx  == [i \in DOMAIN directory.entries |-> i]
        keep(i) == /\ intent \in directory.entries[i].intents
                   /\ ~ Registered(list, i)
        dirs == SelectSeq(idx, keep)
    IN wins \o [k \in DOMAIN dirs |-> [type |-> "directory", details |-> dirs[k]]]

\* the directory pass of raiseIntent throws
CandidatesThrow(intent) ==
    \E i \in DOMAIN directory.entries :
       /\ intent \in directory.entries[i].intents
       /\ FindThrows(ListenersFor(intent), i)

\* onMessage: raiseIntent
RaiseIntent(p, intent, ctx) ==
    /\ ports[p].status = "open"
    /\ IF CandidatesThrow(intent)
       THEN /\ last' = Ran("raiseIntent", p, << >>, TRUE)
            /\ UNCHANGED tasks
       ELSE LET r == Candidates(intent)
            IN IF Len(r) = 0
               THEN \* "show message indicating no handler": nothing is done
                    /\ last' = Ran("raiseIntent", p, << >>, FALSE)
                    /\ UNCHANGED tasks
               ELSE IF Len(r) = 1 /\ r[1].type = "window"
               THEN /\ last' = Ran("raiseIntent", p,
                                   << Post(r[1].details, "intent",
                                           [intent |-> intent, context |-> ctx]) >>,
                                   ports[r[1].details].status = "closed")
                    /\ UNCHANGED tasks
               ELSE IF Len(r) = 1
               THEN \* fetch(r[0].details.manifest).then(...)
                    /\ PendingIntentTasks < MaxPendingIntents
                    /\ NotPending([kind |-> "raiseFetch", port |-> p,
                                   entry |-> r[1].details, intent |-> intent,
                                   context |-> ctx])
                    /\ tasks' = tasks \cup
                          {[kind |-> "raiseFetch", port |-> p,
                            entry |-> r[1].details, intent |-> intent,
                            context |-> ctx]}
                    /\ last' = Ran("raiseIntent", p, << >>, FALSE)
               ELSE \* chrome.tabs.query(..., callback)
                    /\ PendingIntentTasks < MaxPendingIntents
                    /\ NotPending([kind |-> "resolver", port |-> p, data |-> r,
                                   intent |-> intent, context |-> ctx])
                    /\ tasks' = tasks \cup
                          {[kind |-> "resolver", port |-> p, data |-> r,
                            intent |-> intent, context |-> ctx]}
                    /\ last' = Ran("raiseIntent", p, << >>, FALSE)
    /\ UNCHANGED << directory, manifestContent, ports, connected, contexts,
                    tabChannels, contextListeners, intentListeners >>

\* the continuation of raiseIntent's manifest fetch for a single directory
\* candidate: it reads contentManifest.params, and no contentManifest is
\* declared anywhere: the ReferenceError ends it before window.open
RaiseFetchDone(t) ==
    /\ t \in tasks /\ t.kind = "raiseFetch"
    /\ Truthy(directory.entries[t.entry].manifest)
    /\ tasks' = tasks \ {t}
    /\ last' = Ran("raiseFetchDone", t.port, << >>, TRUE)
    /\ UNCHANGED << directory, manifestContent, ports, connected, contexts,
                    tabChannels, contextListeners, intentListeners >>

\* the manifest fetch of raiseIntent is rejected: no continuation runs
RaiseFetchFailed(t) ==
    /\ t \in tasks /\ t.kind = "raiseFetch"
    /\ tasks' = tasks \ {t}
    /\ last' = Ran("raiseFetchFailed", t.port, << >>, FALSE)
    /\ UNCHANGED << directory, manifestContent, ports, connected, contexts,
                    tabChannels, contextListeners, intentListeners >>

\* the resolver request carrying only the first candidate
ResolverQueryDone_FirstOnly(t) ==
    /\ t \in tasks /\ t.kind = "resolver"
    /\ tasks' = tasks \ {t}
    /\ last' = RanCalls("resolverQueryDone", t.port, << >>, FALSE,
                        << [kind |-> "intent_resolver", data |-> << t.data[1] >>,
                            intent |-> t.intent, context |-> t.context] >>)
    /\ UNCHANGED << directory, manifestContent, ports, connected, contexts,
                    tabChannels, contextListeners, intentListeners >>

\* the chrome.tabs.query callback of raiseIntent: the resolver UI of the
\* active tab is sent the candidates, the intent and the context
ResolverQueryDone(t) ==
    /\ t \in tasks /\ t.kind = "resolver"
    /\ tasks' = tasks \ {t}
    /\ last' = RanCalls("resolverQueryDone", t.port, << >>, FALSE,
                        << [kind |-> "intent_resolver", data |-> t.data,
                            intent |-> t.intent, context |-> t.context] >>)
    /\ UNCHANGED << directory, manifestContent, ports, connected, contexts,
                    tabChannels, contextListeners, intentListeners >>

\* what the resolver UI may send back as msg.selected: a window candidate
\* (details: the port, as it was serialised) or a directory candidate
\* (details: the entry)
AllSelections ==
    { [type |-> "window", details |-> q] : q \in Ports }
      \cup { [type |-> "directory", details |-> i] : i \in DOMAIN DirectoryData }

\* the selections that name a port that has connected or an entry of the
\* loaded directory
Selections ==
    { sel \in AllSelections :
        IF sel.type = "window" THEN ports[sel.details].tab # NULL
        ELSE sel.details \in DOMAIN directory.entries }

\* onMessage: resolveIntent
ResolveIntent(p, selected, intent, ctx) ==
    /\ ports[p].status = "open"
    /\ selected \in Selections
    /\ IF selected.type = "window"
       THEN LET winList == ListenersFor(intent)
                hits == { k \in DOMAIN winList :
                            ports[winList[k]].tab = ports[selected.details].tab }
            IN /\ IF hits = {}
                  THEN last' = Ran("resolveIntent", p, << >>, FALSE)
                  ELSE LET win == winList[CHOOSE k \in hits : \A j \in hits : k <= j]
                       IN \* win.postMessage(...); win.focus(): a port has no focus
                          last' = Ran("resolveIntent", p,
                                      << Post(win, "intent",
                                              [intent |-> intent, context |-> ctx]) >>,
                                      TRUE)
               /\ UNCHANGED tasks
       ELSE /\ Cardinality({ t \in tasks : t.kind = "resolveFetch" })
                  < MaxPendingResolves
            /\ NotPending([kind |-> "resolveFetch", port |-> p,
                           entry |-> selected.details, intent |-> intent,
                           context |-> ctx])
            /\ tasks' = tasks \cup
                  {[kind |-> "resolveFetch", port |-> p,
                    entry |-> selected.details, intent |-> intent,
                    context |-> ctx]}
            /\ last' = Ran("resolveIntent", p, << >>, FALSE)
    /\ UNCHANGED << directory, manifestContent, ports, connected, contexts,
                    tabChannels, contextListeners, intentListeners >>

\* the continuation reading the intent and the context of whichever
\* resolveIntent was received last, as if they were kept in shared variables
ResolveFetchDone_SharedRequest(t) ==
    /\ t \in tasks /\ t.kind = "resolveFetch"
    /\ Truthy(directory.entries[t.entry].manifest)
    /\ tasks' = tasks \ {t}
    /\ LET others == { u \in tasks : u.kind = "resolveFetch" /\ u # t }
           req == IF others = {} THEN t ELSE CHOOSE u \in others : TRUE
           res == LaunchUrl(Manifests[directory.entries[t.entry].manifest],
                            req.intent, req.context)
       IN last' = RanCalls("resolveFetchDone", t.port, << >>, res.threw,
                           IF res.threw THEN << >>
                           ELSE << [kind |-> "open", url |-> res.url,
                                    name |-> directory.entries[t.entry].name] >>)
    /\ UNCHANGED << directory, manifestContent, ports, connected, contexts,
                    tabChannels, contextListeners, intentListeners >>

\* the continuation of resolveIntent's manifest fetch: window.open(start_url,
\* msg.selected.details.name) with the url built from the template
ResolveFetchDone(t) ==
    /\ t \in tasks /\ t.kind = "resolveFetch"
    /\ Truthy(directory.entries[t.entry].manifest)
    /\ tasks' = tasks \ {t}
    /\ LET res == LaunchUrl(Manifests[directory.entries[t.entry].manifest],
                            t.intent, t.context)
       IN last' = RanCalls("resolveFetchDone", t.port, << >>, res.threw,
                           IF res.threw THEN << >>
                           ELSE << [kind |-> "open", url |-> res.url,
                                    name |-> directory.entries[t.entry].name] >>)
    /\ UNCHANGED << directory, manifestContent, ports, connected, contexts,
                    tabChannels, contextListeners, intentListeners >>

\* the manifest fetch of resolveIntent is rejected (or the entry has no
\* manifest url to fetch): no continuation runs
ResolveFetchFailed(t) ==
    /\ t \in tasks /\ t.kind = "resolveFetch"
    /\ tasks' = tasks \ {t}
    /\ last' = Ran("resolveFetchFailed", t.port, << >>, FALSE)
    /\ UNCHANGED << directory, manifestContent, ports, connected, contexts,
                    tabChannels, contextListeners, intentListeners >>

\* ------------------------------------------------------------ content script
\* const port = chrome.runtime.connect({name: "fdc3"}): the content script
\* whose state is modelled is the one at the other end of the first port
ClientPort == 1

\* the topics of the API events a page may raise (wireTopic)
ClientTopics == {"addContextListener", "broadcast"}

\* msg.f of a received message: undefined when the message has no such field
Field(msg, f) == IF f \in DOMAIN msg THEN msg[f] ELSE UNDEF

\* what port.postMessage calls of the broker put on the wire to the content
\* script: the objects posted to its port, in order
RECURSIVE Payloads(_)
Payloads(posts) ==
    IF posts = << >> THEN << >>
    ELSE (IF Head(posts).to = ClientPort
          THEN << [name |-> Head(posts).name, data |-> Head(posts).data] >>
          ELSE << >>) \o Payloads(Tail(posts))

\* the messages the broker step has posted reach the content script's port
\* (a post that threw on a disconnected port delivers nothing)
Wire ==
    client' = [client EXCEPT !.inbox =
                 IF last'.threw THEN @ ELSE @ \o Payloads(last'.posts)]

\* document.addEventListener(`FDC3:${topic}`, ...) of wireTopic: the message
\* is queued while connected is false and posted otherwise (data stands for
\* e.detail: the ordinal of the event, so that two events are never equal)
ClientRaise(topic) ==
    /\ Len(client.eventQ) + Len(client.sent) < MaxClientEvents
    /\ LET msg == [topic |-> topic, data |-> Len(client.eventQ) + Len(client.sent)]
       IN client' = IF ~ client.connected
                    THEN [client EXCEPT !.eventQ = Append(@, msg)]
                    ELSE [client EXCEPT !.sent = Append(@, msg)]
    /\ UNCHANGED << directory, manifestContent, ports, connected, contexts,
                    tabChannels, contextListeners, intentListeners, tasks, last >>

\* port.onMessage listener of the content script: on msg.topic ===
\* "environmentData" it sets connected, posts the queued events in order
\* and rejoins the remembered channel; the other topics it handles touch
\* neither the flag nor the queue
ClientReceive ==
    /\ client.inbox # << >>
    /\ LET msg == Head(client.inbox)
       IN IF Field(msg, "topic") = "environmentData"
          THEN client' =
                 [client EXCEPT
                    !.inbox = Tail(@),
                    !.connected = TRUE,
                    !.sent = @ \o client.eventQ \o
                             (IF Truthy(msg.data.currentChannel)
                              THEN << [topic |-> "joinChannel",
                                       data |-> [channel |-> msg.data.currentChannel,
                                                 restoreOnly |-> TRUE]] >>
                              ELSE << >>)]
          ELSE client' = [client EXCEPT !.inbox = Tail(@)]
    /\ UNCHANGED << directory, manifestContent, ports, connected, contexts,
                    tabChannels, contextListeners, intentListeners, tasks, last >>

\* ------------------------------------------------------------ specification
\* every handler of the broker, with every input
Next ==
    \/ UNCHANGED client /\ DirectoryLoaded
    \/ UNCHANGED client /\ \E p \in Ports, tab \in Tabs, url \in AppUrls : Connect(p, tab, url)
    \/ UNCHANGED client /\ \E t \in tasks : ConnectFetchDone(t)
    \/ UNCHANGED client /\ \E t \in tasks : ConnectFetchFailed(t)
    \/ UNCHANGED client /\ \E p \in Ports : Disconnect(p)
    \/ UNCHANGED client /\ \E p \in Ports : AddContextListener(p)
    \/ UNCHANGED client /\ \E p \in Ports, name \in RaisedIntents : AddIntentListener(p, name)
    \/ UNCHANGED client /\ \E p \in Ports, intent \in RaisedIntents, ctx \in RaiseContexts :
          RaiseIntent(p, intent, ctx)
    \/ UNCHANGED client /\ \E t \in tasks : RaiseFetchDone(t)
    \/ UNCHANGED client /\ \E t \in tasks : RaiseFetchFailed(t)
    \/ UNCHANGED client /\ \E t \in tasks : ResolverQueryDone(t)
    \/ UNCHANGED client /\ \E p \in Ports, selected \in AllSelections, intent \in RaisedIntents,
          ctx \in RaiseContexts : ResolveIntent(p, selected, intent, ctx)
    \/ UNCHANGED client /\ \E t \in tasks : ResolveFetchDone(t)
    \/ UNCHANGED client /\ \E t \in tasks : ResolveFetchFailed(t)
    \/ UNCHANGED client /\ \E p \in Ports, ctx \in Contexts : Broadcast(p, ctx)
    \/ UNCHANGED client /\ \E p \in Ports, chan \in ChannelIds, restoreOnly \in BOOLEAN :
          JoinChannel(p, chan, restoreOnly)
    \/ UNCHANGED client /\ \E p \in Ports, tabId \in TitleTabs : GetTabTitle(p, tabId)
    \/ UNCHANGED client /\ \E t \in tasks, r \in {"title", UNDEF} : TabTitleReply(t, r)

Spec == Init /\ [][Next]_vars

\* The channel manager: membership and broadcasts with every kind of channel
\* id, for endpoints whose pages have no directory entry (the channel
\* handlers read neither port.directoryData nor the pending fetches).
NextChannels ==
    \/ UNCHANGED client /\ DirectoryLoaded
    \/ UNCHANGED client /\ \E p \in Ports, tab \in Tabs, url \in PlainUrls : Connect(p, tab, url)
    \/ UNCHANGED client /\ \E p \in Ports : Disconnect(p)
    \/ UNCHANGED client /\ \E p \in Ports : AddContextListener(p)
    \/ UNCHANGED client /\ \E p \in Ports, ctx \in Contexts : Broadcast(p, ctx)
    \/ UNCHANGED client /\ \E p \in Ports, chan \in ChannelIds, restoreOnly \in BOOLEAN :
          JoinChannel(p, chan, restoreOnly)

SpecChannels == Init /\ [][NextChannels]_vars

\* The registries and the asynchronous replies: connections from every kind
\* of page, channel membership, intent listeners and tab titles (no handler
\* here reads the context histories that broadcasts write).
NextRegistry ==
    \/ UNCHANGED client /\ DirectoryLoaded
    \/ UNCHANGED client /\ \E p \in Ports, tab \in Tabs, url \in AppUrls : Connect(p, tab, url)
    \/ UNCHANGED client /\ \E t \in tasks : ConnectFetchDone(t)
    \/ UNCHANGED client /\ \E t \in tasks : ConnectFetchFailed(t)
    \/ UNCHANGED client /\ \E p \in Ports : Disconnect(p)
    \/ UNCHANGED client /\ \E p \in Ports : AddContextListener(p)
    \/ UNCHANGED client /\ \E p \in Ports, name \in Intents : AddIntentListener(p, name)
    \/ UNCHANGED client /\ \E p \in Ports, chan \in NamedChannelIds, restoreOnly \in BOOLEAN :
          JoinChannel(p, chan, restoreOnly)
    \/ UNCHANGED client /\ \E p \in Ports, tabId \in TitleTabs : GetTabTitle(p, tabId)
    \/ UNCHANGED client /\ \E t \in tasks, r \in {"title", UNDEF} : TabTitleReply(t, r)

SpecRegistry == Init /\ [][NextRegistry]_vars

\* Raising intents: connections from every kind of page, intent listeners,
\* raiseIntent and its continuations (no handler here reads or writes the
\* channel state).
NextIntents ==
    \/ UNCHANGED client /\ DirectoryLoaded
    \/ UNCHANGED client /\ \E p \in Ports, tab \in Tabs, url \in IntentUrls : Connect(p, tab, url)
    \/ UNCHANGED client /\ \E t \in tasks : ConnectFetchDone(t)
    \/ UNCHANGED client /\ \E p \in Ports : Disconnect(p)
    \/ UNCHANGED client /\ \E p \in Ports, name \in ListenedIntents : AddIntentListener(p, name)
    \/ UNCHANGED client /\ \E p \in Ports, intent \in RaisedIntents, ctx \in RaiseContexts :
          RaiseIntent(p, intent, ctx)
    \/ UNCHANGED client /\ \E t \in tasks : RaiseFetchDone(t)
    \/ UNCHANGED client /\ \E t \in tasks : RaiseFetchFailed(t)
    \/ UNCHANGED client /\ \E t \in tasks : ResolverQueryDone(t)

SpecIntents == Init /\ [][NextIntents]_vars

\* Resolving intents: the selection the resolver UI reports back, routed to a
\* live listener or to a launch (resolveIntent reads the intent listeners and
\* the tabs of the ports, never a port's directoryData).
NextResolve ==
    \/ UNCHANGED client /\ DirectoryLoaded
    \/ UNCHANGED client /\ \E p \in Ports, tab \in Tabs, url \in PlainUrls : Connect(p, tab, url)
    \/ UNCHANGED client /\ \E p \in Ports : Disconnect(p)
    \/ UNCHANGED client /\ \E p \in Ports, name \in Intents : AddIntentListener(p, name)
    \/ UNCHANGED client /\ \E p \in Ports, selected \in AllSelections, intent \in RaisedIntents,
          ctx \in RaiseContexts : ResolveIntent(p, selected, intent, ctx)
    \/ UNCHANGED client /\ \E t \in tasks : ResolveFetchDone(t)
    \/ UNCHANGED client /\ \E t \in tasks : ResolveFetchFailed(t)

SpecResolve == Init /\ [][NextResolve]_vars

\* The content script of one tab and the broker's side of its connection:
\* what the connect handler and its continuation post is put on the wire to
\* the content script.
NextClient ==
    \/ DirectoryLoaded /\ Wire
    \/ (\E p \in Ports, tab \in Tabs, url \in AppUrls : Connect(p, tab, url)) /\ Wire
    \/ (\E t \in tasks : ConnectFetchDone(t)) /\ Wire
    \/ \E topic \in ClientTopics : ClientRaise(topic)
    \/ ClientReceive

SpecClient == Init /\ [][NextClient]_vars

\* a message posted to the port is delivered to the onMessage listener of
\* the content script by the browser's event loop
SpecClientFair == SpecClient /\ WF_vars(ClientReceive)

\* ------------------------------------------------------------ properties
\* how many of the posts are a message `name` to port `to`
RECURSIVE CountPosts(_, _, _)
CountPosts(posts, to, name) ==
    IF posts = << >> THEN 0
    ELSE (IF Head(posts).to = to /\ Head(posts).name = name THEN 1 ELSE 0)
         + CountPosts(Tail(posts), to, name)

\* the ids registered as listeners of channel c
ListenersOn(c) ==
    IF c \in DOMAIN contextListeners THEN Range(contextListeners[c]) ELSE {}

\* getCurrentContext(c): contexts[c][0]
CurrentContext(c) ==
    IF c \in DOMAIN contexts /\ contexts[c] # << >> THEN contexts[c][1] ELSE UNDEF

\* C1: on every broadcast by a registered endpoint whose current channel is
\* C, every other endpoint listening on C gets exactly one `context` message,
\* and it carries the broadcast context.
C1_BroadcastExactlyOnce ==
    [][\A p \in Ports, ctx \in Contexts :
          (Broadcast(p, ctx) /\ connected[app_id(p)] = p) =>
             \A l \in ListenersOn(ChannelOf(app_id(p))) \ {app_id(p)} :
                /\ CountPosts(last'.posts, connected[l], "context") = 1
                /\ \A i \in DOMAIN last'.posts :
                      last'.posts[i].to = connected[l] =>
                         last'.posts[i].data.context = ctx]_vars

\* C2: a broadcast is never echoed: a broadcaster that is itself a listener
\* on its channel gets no `context` message for its own broadcast.
C2_NoEcho ==
    [][\A p \in Ports, ctx \in Contexts :
          (/\ Broadcast(p, ctx)
           /\ connected[app_id(p)] = p
           /\ app_id(p) \in ListenersOn(ChannelOf(app_id(p)))) =>
             CountPosts(last'.posts, p, "context") = 0]_vars

\* C3: a broadcast on channel C prepends its context to C's history (so the
\* history is the contexts broadcast on C, latest first, and index 0 is the
\* latest) and leaves every other channel's history as it was; nothing else
\* changes a history.
C3_HistoryInArrivalOrder ==
    [][/\ \A p \in Ports, ctx \in Contexts :
             (Broadcast(p, ctx) /\ connected[app_id(p)] = p) =>
                LET C == ChannelOf(app_id(p))
                IN /\ C \in DOMAIN contexts'
                   /\ C \in DOMAIN contexts
                   /\ contexts'[C] = << ctx >> \o contexts[C]
                   /\ CurrentContext(C)' = ctx
                   /\ \A D \in DOMAIN contexts \ {C} : contexts'[D] = contexts[D]
       /\ (~ \E p \in Ports, ctx \in Contexts : Broadcast(p, ctx)) =>
             contexts' = contexts]_vars

\* C4: a joinChannel with restoreOnly = true posts no `context` message to
\* the joining endpoint.
C4_RestoreOnlyDeliversNothing ==
    [][\A p \in Ports, chan \in ChannelIds :
          JoinChannel(p, chan, TRUE) =>
             CountPosts(last'.posts, p, "context") = 0]_vars

\* C5: a joinChannel with restoreOnly = false, whatever the channel id,
\* posts exactly one `context` message to the joining endpoint, carrying the
\* target channel's current context (none when the history is empty).
C5_JoinDeliversCurrentContext ==
    [][\A p \in Ports, chan \in ChannelIds :
          (JoinChannel(p, chan, FALSE) /\ connected[app_id(p)] = p) =>
             /\ CountPosts(last'.posts, p, "context") = 1
             /\ \A i \in DOMAIN last'.posts :
                   last'.posts[i].data.context = CurrentContext(chan)]_vars

\* C6: no endpoint id is in the listener list of two channels.
C6_ListenerOfAtMostOneChannel ==
    \A id \in Tabs :
       Cardinality({ c \in DOMAIN contextListeners : id \in ListenersOn(c) }) <= 1

\* C7: once the disconnect of a port has been processed, the port is in no
\* intent's listener list and is not the registry entry of its id, and (until
\* another port registers under that id) the id is in no channel's listener
\* list.
C7_DisconnectCleansUp ==
    \A p \in Ports :
       ports[p].status = "closed" =>
          /\ connected[app_id(p)] # p
          /\ \A k \in DOMAIN intentListeners : p \notin Range(intentListeners[k])
          /\ connected[app_id(p)] = NULL =>
                \A c \in DOMAIN contextListeners : app_id(p) \notin ListenersOn(c)

\* a disconnect has just been processed, an intent's list and a joined
\* channel's list have been emptied, and another endpoint is still listening
C7_Witness ==
    /\ last.op = "disconnect"
    /\ ports[last.port].status = "closed"
    /\ connected[app_id(last.port)] = NULL
    /\ \E k \in DOMAIN intentListeners : intentListeners[k] = << >>
    /\ \E c \in ChannelIds : c \in DOMAIN contextListeners /\ c # "default"
                             /\ c \notin channels /\ contextListeners[c] = << >>
    /\ \E c \in DOMAIN contextListeners : contextListeners[c] # << >>

\* C8: no handler and no continuation posts a message to a port whose
\* disconnect has been processed.
C8_NoPostAfterDisconnect ==
    \A i \in DOMAIN last.posts : ports[last.posts[i].to].status # "closed"

\* C9: a disconnect leaves tabChannels as it is; tabChannels[T] changes only
\* by a joinChannel from tab T, to the channel joined; the bootstrap data of
\* a connect from tab T carries tabChannels[T] as currentChannel, also when
\* it is posted later by the fetch continuation.
C9_TabChannelSurvivesDisconnect ==
    [][/\ last'.op = "disconnect" => tabChannels' = tabChannels
       /\ \A t \in Tabs :
             tabChannels'[t] # tabChannels[t] =>
                /\ last'.op = "joinChannel"
                /\ ports[last'.port].tab = t
                /\ connected[t] # NULL
                /\ tabChannels'[t] = ports'[connected[t]].channel
       /\ (last'.op = "joinChannel" /\ connected[app_id(last'.port)] # NULL) =>
             tabChannels'[app_id(last'.port)] =
                ports'[connected[app_id(last'.port)]].channel
       /\ (last'.op = "connect" /\ ~ last'.threw) =>
             LET tab == ports'[last'.port].tab
             IN /\ \A i \in DOMAIN last'.posts :
                      last'.posts[i].data.currentChannel = tabChannels[tab]
                /\ \A t \in tasks' \ tasks :
                      t.data.currentChannel = tabChannels[tab]
       /\ last'.op = "connectFetchDone" =>
             \E t \in tasks \ tasks' :
                /\ t.port = last'.port
                /\ Len(last'.posts) = 1
                /\ last'.posts[1].data.currentChannel =
                      t.data.currentChannel]_vars

\* an endpoint that connects from a tab whose earlier endpoint joined "red"
\* and has disconnected is sent bootstrap data with currentChannel = "red"
C9_Witness ==
    /\ last.op \in {"connect", "connectFetchDone"}
    /\ Len(last.posts) = 1
    /\ last.posts[1].name = "environmentData"
    /\ last.posts[1].data.currentChannel = "red"
    /\ ports[last.port].status = "open"
    /\ \E q \in Ports :
          /\ ports[q].status = "closed"
          /\ ports[q].tab = ports[last.port].tab
          /\ ports[q].channel = "red"
          /\ \A r \in Ports : ports[r].tab = ports[q].tab => r \in {q, last.port}

\* C10: every endpoint that connects (the directory being loaded) is posted
\* exactly one environmentData message, at once or by the pending fetch
\* continuation, whatever its origin matches.
C10_EveryConnectIsBootstrapped ==
    [][/\ \A p \in Ports, tab \in Tabs, url \in AppUrls :
             (Connect(p, tab, url) /\ directory.loaded) =>
                \/ /\ CountPosts(last'.posts, p, "environmentData") = 1
                   /\ ~ \E t \in tasks' : t.kind = "connect" /\ t.port = p
                \/ /\ CountPosts(last'.posts, p, "environmentData") = 0
                   /\ \E t \in tasks' : t.kind = "connect" /\ t.port = p
       /\ \A t \in tasks :
             (t.kind = "connect" /\ t \notin tasks') =>
                CountPosts(last'.posts, t.port, "environmentData") = 1]_vars

\* the directory entries that declare the intent
Declaring(intent) ==
    { i \in DOMAIN directory.entries : intent \in directory.entries[i].intents }

\* C11: a raiseIntent for an intent that has exactly one registered live
\* listener and that no directory entry declares posts one `intent` message,
\* carrying the intent and the context, to that listener, and starts no
\* resolver request.
C11_SingleListenerGetsIntent ==
    [][\A p \in Ports, intent \in RaisedIntents, ctx \in RaiseContexts :
          (/\ RaiseIntent(p, intent, ctx)
           /\ Len(ListenersFor(intent)) = 1
           /\ Declaring(intent) = {}) =>
             /\ last'.posts = << Post(ListenersFor(intent)[1], "intent",
                                      [intent |-> intent, context |-> ctx]) >>
             /\ ~ last'.threw
             /\ last'.calls = << >>
             /\ tasks' = tasks]_vars

\* an intent no entry declares has just been delivered to its one listener
C11_Witness ==
    /\ last.op = "raiseIntent"
    /\ Len(ListenersFor("Chat")) = 1
    /\ Declaring("Chat") = {}
    /\ last.posts = << Post(ListenersFor("Chat")[1], "intent",
                            [intent |-> "Chat",
                             context |-> [type |-> "security", ticker |-> "MSFT"]]) >>

\* the directory entries among the candidates a raiseIntent has just handed
\* to a continuation (the single launch or the resolver request)
HandedEntries(t) ==
    IF t.kind = "raiseFetch" THEN { t.entry }
    ELSE IF t.kind = "resolver"
    THEN { t.data[k].details : k \in { j \in DOMAIN t.data : t.data[j].type = "directory" } }
    ELSE {}

\* C12: the candidates of a raiseIntent hold no directory entry whose name
\* is the name of the matched directory entry of a live listener registered
\* for the raised intent.
C12_RegisteredEntryExcluded ==
    [][last'.op = "raiseIntent" =>
          \A t \in tasks' \ tasks :
             \A i \in HandedEntries(t) :
                ~ Registered(ListenersFor(t.intent), i)]_vars

\* a raise of ViewChart while a page of appA listens for it: the resolver
\* is handed the listener and appC, and not appA
C12_Witness ==
    /\ last.op = "raiseIntent"
    /\ \E t \in tasks :
          /\ t.kind = "resolver" /\ t.intent = "ViewChart"
          /\ Len(t.data) = 2
          /\ t.data[1].type = "window"
          /\ ports[t.data[1].details].directoryData = 1
          /\ t.data[2] = [type |-> "directory", details |-> 3]
          /\ "ViewChart" \in directory.entries[1].intents

\* C13: the candidates of a raiseIntent hold every directory entry that
\* declares the raised intent and whose name is not the name of the matched
\* entry of a live listener for that intent, also when a listener has no
\* matched entry (yet).
C13_UnregisteredEntryIncluded ==
    [][\A p \in Ports, intent \in RaisedIntents, ctx \in RaiseContexts :
          RaiseIntent(p, intent, ctx) =>
             \A i \in Declaring(intent) :
                ~ Registered(ListenersFor(intent), i) =>
                   \E t \in tasks' \ tasks :
                      t.intent = intent /\ i \in HandedEntries(t)]_vars

\* C14: a raiseIntent that finds more than one candidate posts no `intent`
\* message and opens no url; it leaves one resolver request pending, and the
\* request, when it is sent, is one intent_resolver message carrying all the
\* candidates in order, the intent and the context, and again no `intent`
\* message and no opened url.
C14_ManyCandidatesGoToResolver ==
    [][/\ \A p \in Ports, intent \in RaisedIntents, ctx \in RaiseContexts :
             (/\ RaiseIntent(p, intent, ctx)
              /\ ~ CandidatesThrow(intent)
              /\ Len(Candidates(intent)) > 1) =>
                /\ last'.posts = << >>
                /\ last'.calls = << >>
                /\ tasks' \ tasks =
                      {[kind |-> "resolver", port |-> p,
                        data |-> Candidates(intent), intent |-> intent,
                        context |-> ctx]}
       /\ last'.op = "resolverQueryDone" =>
             \E t \in tasks \ tasks' :
                /\ t.kind = "resolver"
                /\ Len(t.data) > 1
                /\ last'.posts = << >>
                /\ last'.calls =
                      << [kind |-> "intent_resolver", data |-> t.data,
                          intent |-> t.intent, context |-> t.context] >>]_vars

\* ViewChart is raised while nobody listens for it: the resolver UI has just
\* been sent the two directory entries that declare it
C14_Witness ==
    /\ last.op = "resolverQueryDone"
    /\ ListenersFor("ViewChart") = << >>
    /\ Len(last.calls) = 1
    /\ last.calls[1].intent = "ViewChart"
    /\ last.calls[1].data = << [type |-> "directory", details |-> 1],
                               [type |-> "directory", details |-> 3] >>

\* C15: a raiseIntent for an intent that has no live listener and that no
\* directory entry declares posts a message to the raising endpoint (the
\* report that there is no handler), and starts no resolver request.
C15_NoHandlerIsReported ==
    [][\A p \in Ports, intent \in RaisedIntents, ctx \in RaiseContexts :
          (/\ RaiseIntent(p, intent, ctx)
           /\ ListenersFor(intent) = << >>
           /\ Declaring(intent) = {}) =>
             /\ \E i \in DOMAIN last'.posts : last'.posts[i].to = p
             /\ last'.calls = << >>
             /\ tasks' = tasks]_vars

\* C16: the continuation of the manifest fetch that a raiseIntent started
\* for its single directory candidate opens, when the manifest has an intent
\* entry for the context's type and the intent, the url built from that
\* entry's template, and sends nothing to the resolver UI.
C16_SingleEntryIsLaunched ==
    [][\A t \in tasks :
          (/\ RaiseFetchDone(t)
           /\ FindRaisedIntentData(Manifests[directory.entries[t.entry].manifest],
                                   t.intent, t.context) # NULL) =>
             LET mD == Manifests[directory.entries[t.entry].manifest]
                 intentData == FindRaisedIntentData(mD, t.intent, t.context)
                 params == ExtractParams(mD, t.context)
             IN /\ Len(last'.calls) = 1
                /\ last'.calls[1].kind = "open"
                /\ last'.calls[1].url =
                      ReplaceAllKeys(mD.templates[mD.intents[intentData].template],
                                     params, DOMAIN params)]_vars

\* C17: the url that the continuation of resolveIntent's manifest fetch
\* opens is the matched template with every occurrence of every placeholder
\* that has an extracted value replaced by that value, and every other
\* piece left as it is.
C17_EveryPlaceholderReplaced ==
    [][(last'.op = "resolveFetchDone" /\ ~ last'.threw) =>
          \E t \in tasks \ tasks' :
             LET mD == Manifests[directory.entries[t.entry].manifest]
                 template ==
                    mD.templates[mD.intents[FindIntentData(mD, t.intent,
                                                           t.context)].template]
                 params == ExtractParams(mD, t.context)
                 url == last'.calls[1].url
             IN /\ Len(url) = Len(template)
                /\ \A j \in DOMAIN template :
                      url[j] = IF \E k \in DOMAIN params :
                                     template[j] = Placeholder(k)
                               THEN params[CHOOSE k \in DOMAIN params :
                                              template[j] = Placeholder(k)]
                               ELSE template[j]]_vars

\* C18: what raiseIntent does for its only candidate is what resolveIntent
\* does for that candidate as the selection: for a live listener the same
\* `intent` message to the same port, for a directory entry the same
\* window.open call as the continuation of resolveIntent's manifest fetch
\* makes for that entry, intent and context.
C18_RaiseSingleEqualsResolve ==
    [][/\ \A p \in Ports, intent \in RaisedIntents, ctx \in RaiseContexts :
             (/\ RaiseIntent(p, intent, ctx)
              /\ ~ CandidatesThrow(intent)
              /\ Len(Candidates(intent)) = 1
              /\ Candidates(intent)[1].type = "window") =>
                last'.posts = << Post(Candidates(intent)[1].details, "intent",
                                      [intent |-> intent, context |-> ctx]) >>
       /\ \A t \in tasks :
             RaiseFetchDone(t) =>
                LET res == LaunchUrl(Manifests[directory.entries[t.entry].manifest],
                                     t.intent, t.context)
                IN last'.calls =
                      IF res.threw THEN << >>
                      ELSE << [kind |-> "open", url |-> res.url,
                               name |-> directory.entries[t.entry].name] >>]_vars

\* C19: a resolution that fails is reported to the raiser: the step in
\* which resolveIntent finds its selected live listener gone, or in which the
\* manifest fetch of a raise or of a resolve fails, or in which its
\* continuation finds no template entry (and throws), posts a message to
\* the port that sent the request.
C19_FailureIsReported ==
    [][(\/ last'.op \in {"raiseFetchFailed", "resolveFetchFailed"}
        \/ last'.op \in {"raiseFetchDone", "resolveFetchDone"} /\ last'.threw
        \/ /\ last'.op = "resolveIntent"
           /\ tasks' = tasks
           /\ last'.posts = << >>) =>
          \E i \in DOMAIN last'.posts : last'.posts[i].to = last'.port]_vars

\* C20: an addContextListener from an endpoint that is already a listener
\* of its current channel changes no channel's listener list.
C20_AddContextListenerIdempotent ==
    [][\A p \in Ports :
          (/\ AddContextListener(p)
           /\ connected[app_id(p)] # NULL
           /\ app_id(p) \in ListenersOn(ChannelOf(app_id(p)))) =>
             contextListeners' = contextListeners]_vars

\* C21: a channel id that is neither "default" nor a system channel works
\* like a system channel: a joinChannel for it makes the endpoint a listener
\* of it, and a broadcast by a registered endpoint whose channel it is
\* completes, makes the context the channel's current context and posts it
\* to every other listener of the channel.
C21_UnknownChannelWorks ==
    [][/\ \A p \in Ports, chan \in NamedChannelIds \ (channels \cup {"default"}),
            restoreOnly \in BOOLEAN :
             (JoinChannel(p, chan, restoreOnly) /\ connected[app_id(p)] = p) =>
                app_id(p) \in ListenersOn(chan)'
       /\ \A p \in Ports, ctx \in Contexts :
             (/\ Broadcast(p, ctx)
              /\ connected[app_id(p)] = p
              /\ ChannelOf(app_id(p)) \notin channels \cup {"default"}) =>
                /\ ~ last'.threw
                /\ CurrentContext(ChannelOf(app_id(p)))' = ctx
                /\ \A l \in ListenersOn(ChannelOf(app_id(p))) \ {app_id(p)} :
                      CountPosts(last'.posts, connected[l], "context") >= 1]_vars

\* C22: the candidates a raiseIntent hands to the resolver are the live
\* listeners of the intent, in the order in which they registered, followed
\* by directory entries only, in the order of the directory.
C22_ListenersBeforeEntries ==
    [][last'.op = "raiseIntent" =>
          \A t \in tasks' \ tasks :
             t.kind = "resolver" =>
                LET list == ListenersFor(t.intent)
                    n == Len(list)
                IN /\ Len(t.data) >= n
                   /\ \A k \in 1 .. n :
                         t.data[k] = [type |-> "window", details |-> list[k]]
                   /\ \A k \in (n + 1) .. Len(t.data) :
                         t.data[k].type = "directory"
                   /\ \A j, k \in (n + 1) .. Len(t.data) :
                         j < k => t.data[j].details < t.data[k].details
                   /\ { t.data[k].details : k \in (n + 1) .. Len(t.data) } =
                         { i \in Declaring(t.intent) : ~ Registered(list, i) }]_vars

\* a raise has just handed the resolver two different listeners, in the
\* order in which they registered, followed by two directory entries
C22_Witness ==
    /\ last.op = "raiseIntent"
    /\ \E t \in tasks :
          /\ t.kind = "resolver"
          /\ Len(t.data) = 4
          /\ Len(ListenersFor(t.intent)) = 2
          /\ ListenersFor(t.intent)[1] # ListenersFor(t.intent)[2]
          /\ t.data[1] = [type |-> "window", details |-> ListenersFor(t.intent)[1]]
          /\ t.data[2] = [type |-> "window", details |-> ListenersFor(t.intent)[2]]
          /\ t.data[3] = [type |-> "directory", details |-> 1]
          /\ t.data[4] = [type |-> "directory", details |-> 3]

\* C23: the open port that connected last under an id is the registry
\* entry of that id: the disconnect of an older port of the same id does not
\* remove or null it.
C23_NewerConnectionStaysRegistered ==
    \A p \in Ports :
       (/\ ports[p].status = "open"
        /\ \A q \in Ports :
              (q > p /\ ports[q].tab = ports[p].tab) => ports[q].status = "idle") =>
          connected[app_id(p)] = p

\* C24: a connect that is processed while the directory is not loaded does
\* not fail: the handler ends without a throw and the port is the registry
\* entry of its id and wired to the message handlers.
C24_ConnectWithoutDirectory ==
    (last.op = "connect" /\ ~ directory.loaded) =>
       /\ ~ last.threw
       /\ connected[app_id(last.port)] = last.port
       /\ ports[last.port].status = "open"

\* C25: the continuation of a resolveIntent's manifest fetch acts on the
\* entry, the intent and the context of the request that started that fetch
\* (it opens the url built from them, for the port that sent them), whatever
\* was processed while the fetch was pending, another resolveIntent with its
\* own pending fetch included; and it changes nothing else.
C25_ContinuationActsOnItsRequest ==
    [][last'.op = "resolveFetchDone" =>
          /\ \E t \in tasks :
                /\ t.kind = "resolveFetch"
                /\ tasks' = tasks \ {t}
                /\ last'.port = t.port
                /\ LET res == LaunchUrl(Manifests[directory.entries[t.entry].manifest],
                                        t.intent, t.context)
                   IN /\ last'.threw = res.threw
                      /\ last'.calls =
                            IF res.threw THEN << >>
                            ELSE << [kind |-> "open", url |-> res.url,
                                     name |-> directory.entries[t.entry].name] >>
          /\ last'.posts = << >>
          /\ UNCHANGED << ports, connected, intentListeners, contextListeners,
                          contexts, tabChannels >>]_vars

\* a continuation has just opened the url of its own request (appA, built
\* from a security context) while the fetch of a later, different request
\* (appC, ViewNews, a contact context) is still pending and a listener is
\* registered
C25_Witness ==
    /\ last.op = "resolveFetchDone"
    /\ last.calls = << [kind |-> "open",
                        url |-> << "app://open?sym=", "MSFT" >>,
                        name |-> "appA"] >>
    /\ \E u \in tasks :
          /\ u.kind = "resolveFetch"
          /\ u.entry = 3
          /\ u.intent = "ViewNews"
          /\ u.context.type = "contact"
    /\ ListenersFor("ViewChart") # << >>

\* C27: the candidates a raiseIntent hands to the resolver never hold two
\* window candidates for the same port, and an intent that no directory
\* entry declares and for which a single port is registered (however many
\* times) starts no resolver request.
C27_NoDuplicateListenerCandidate ==
    [][last'.op = "raiseIntent" =>
          \A t \in tasks' \ tasks :
             t.kind = "resolver" =>
                /\ \A j, k \in DOMAIN t.data :
                      (/\ j # k
                       /\ t.data[j].type = "window"
                       /\ t.data[k].type = "window") =>
                         t.data[j].details # t.data[k].details
                /\ ~ (/\ Declaring(t.intent) = {}
                      /\ Cardinality(Range(ListenersFor(t.intent))) = 1)]_vars

\* C26: an API event that is in the content script's queue while the
\* broker's bootstrap message (environmentData) for the connection is on the
\* wire is eventually posted to the broker.
C26_QueuedEventIsEventuallyPosted ==
    \A topic \in ClientTopics, n \in 0 .. MaxClientEvents :
       LET e == [topic |-> topic, data |-> n]
       IN (/\ e \in Range(client.eventQ)
           /\ \E i \in DOMAIN client.inbox :
                 client.inbox[i].name = "environmentData")
            ~> (e \in Range(client.sent))

====
